---- MODULE Spec2Model ----
(***************************************************************************)
(* Session management of app/sessions.py: the itsdangerous signers as the  *)
(* code uses them, CookieBackend, DatabaseBackend over the Session table   *)
(* of app/auth/tables.py, and the Session object.                          *)
(*                                                                         *)
(* A byte string is a record of its "."-separated segments: the value      *)
(* segment, the timestamp segment (NoTs when the string has none) and the  *)
(* signature segment (NoSig when the string has none).                     *)
(***************************************************************************)
EXTENDS Integers, FiniteSets, Sequences, TLC

\* ---------------------------------------------------------------- bounds
MaxAge == 1
MaxUuid == 2
MaxRows == 2
MaxFail == 1
MaxTime == MaxAge + 1

Keys == {"a", "b"}
Vals == {1, 2}
Backends == {"cookie", "db"}
Sessions == {"s1", "s2"}
Active == {"s1"}

\* ---------------------------------------------------------- dict values
Empty == <<>>

Mappings == UNION {[S -> Vals] : S \in SUBSET Keys}

DictSet(d, k, v) == [x \in DOMAIN d \cup {k} |-> IF x = k THEN v ELSE d[x]]

DictDel(d, k) == [x \in DOMAIN d \ {k} |-> d[x]]

DictSetDefault(d, k, v) == IF k \in DOMAIN d THEN d ELSE DictSet(d, k, v)

DictUpdate(d, m) == [x \in DOMAIN d \cup DOMAIN m |-> IF x \in DOMAIN m THEN m[x] ELSE d[x]]

\* ------------------------------------------------------------ byte strings
SecretKey == "secret"

NoTs == 0 - 1

NoBytes == [kind |-> "none", uuid |-> 0, text |-> {}, enc |-> FALSE]

EmptyBytes == [kind |-> "empty", uuid |-> 0, text |-> {}, enc |-> FALSE]

JunkBytes == [kind |-> "junk", uuid |-> 0, text |-> {}, enc |-> FALSE]

NoSig == [key |-> "", val |-> NoBytes, ts |-> NoTs]

Str(v) == [val |-> v, ts |-> NoTs, sig |-> NoSig]

NoneStr == Str(NoBytes)

EmptyStr == Str(EmptyBytes)

JunkStr == Str(JunkBytes)

\* str(uuid.uuid4())
UuidStr(u) == Str([kind |-> "uuid", uuid |-> u, text |-> {}, enc |-> FALSE])

\* Python truth value of an Optional[str]
Truthy(s) == s # NoneStr /\ s # EmptyStr

\* json.dumps / json.loads on a dict with string keys
JsonDumps(d) == [kind |-> "json", uuid |-> 0, text |-> {<<k, d[k]>> : k \in DOMAIN d}, enc |-> FALSE]

JsonOk(b) == b.kind = "json" /\ ~b.enc

JsonLoads(b) == [k \in {p[1] : p \in b.text} |-> CHOOSE v \in Vals : <<k, v>> \in b.text]

B64Encode(b) == [b EXCEPT !.enc = TRUE]

B64Ok(b) == b.enc

B64Decode(b) == [b EXCEPT !.enc = FALSE]

\* ---------------------------------------------------------------- signers
Mac(key, v, ts) == [key |-> key, val |-> v, ts |-> ts]

\* Signer.sign
Sign(v) == [val |-> v, ts |-> NoTs, sig |-> Mac(SecretKey, v, NoTs)]

\* TimestampSigner.sign at clock t
TsSign(v, t) == [val |-> v, ts |-> t, sig |-> Mac(SecretKey, v, t)]

\* Signer.unsign: the signature segment must be there and verify
SigOk(s) == s.sig # NoSig /\ s.sig = Mac(SecretKey, s.val, s.ts)

\* TimestampSigner.unsign(s, max_age) at clock t
TsUnsign(s, max_age, t) ==
    IF ~SigOk(s) THEN [status |-> "BadSignature", val |-> NoBytes]
    ELSE IF s.ts = NoTs THEN [status |-> "BadSignature", val |-> NoBytes]
    ELSE IF t - s.ts > max_age THEN [status |-> "SignatureExpired", val |-> NoBytes]
    ELSE [status |-> "ok", val |-> s.val]

\* json.loads(b64decode(data)); a payload that does not decode raises
Decode(v) ==
    IF B64Ok(v) /\ JsonOk(B64Decode(v))
    THEN [exc |-> "", out |-> JsonLoads(B64Decode(v))]
    ELSE [exc |-> "ValueError", out |-> Empty]

\* b64encode(json.dumps(data).encode("utf-8"))
Encode(d) == B64Encode(JsonDumps(d))

Returned(m) == [exc |-> "", out |-> m]

\* ------------------------------------------------------------------ state
VARIABLES backend, now, rows, next_uuid, signed, sess, w, fl, last

vars == <<backend, now, rows, next_uuid, signed, sess, w, fl, last>>

\* slip: an identifier that is not drawn afresh
GenerateIdFixed(u) == UuidStr(1)

\* SessionBackend.generate_id: the next unused uuid
GenerateId(u) == UuidStr(u)

\* ------------------------------------------------------------ CookieBackend
\* slip: the age limit taken one second short
CookieReadShort(session_id, t) ==
    LET u == TsUnsign(session_id, MaxAge - 1, t)
    IN  IF u.status = "ok" THEN Decode(u.val) ELSE Returned(Empty)

\* slip: the payload decoded without the signature being verified
CookieReadUnverified(session_id, t) == Decode(session_id.val)

CookieRead(session_id, t) ==
    LET u == TsUnsign(session_id, MaxAge, t)
    IN  IF u.status = "ok" THEN Decode(u.val) ELSE Returned(Empty)

CookieWrite(data, session_id, t) == TsSign(Encode(data), t)

CookieRemove(rs, session_id) == rs

\* slip: exists answers whether the identifier verifies
CookieExistsVerified(rs, session_id) == SigOk(session_id)

CookieExists(rs, session_id) == FALSE

\* ---------------------------------------------------------- DatabaseBackend
\* SessionStore.query.get(session_id): the rows with that primary key
QueryGet(rs, session_id) == {r \in rs : r.id = session_id}

\* slip: the stored payload verified without an age limit
DbReadNoExpiry(rs, session_id, t) ==
    IF QueryGet(rs, session_id) = {} THEN Returned(Empty)
    ELSE LET instance == CHOOSE r \in QueryGet(rs, session_id) : TRUE
         IN  IF SigOk(instance.data) THEN Decode(instance.data.val) ELSE Returned(Empty)

\* slip: the age judged by the record's expires column
DbReadByExpires(rs, session_id, t) ==
    IF QueryGet(rs, session_id) = {} THEN Returned(Empty)
    ELSE LET instance == CHOOSE r \in QueryGet(rs, session_id) : TRUE
         IN  IF SigOk(instance.data) /\ t <= instance.expires
             THEN Decode(instance.data.val) ELSE Returned(Empty)

\* (the _exists attribute read() sets is read nowhere and is left out)
DbRead(rs, session_id, t) ==
    IF QueryGet(rs, session_id) = {} THEN Returned(Empty)
    ELSE LET instance == CHOOSE r \in QueryGet(rs, session_id) : TRUE
             u == TsUnsign(instance.data, MaxAge, t)
         IN  IF u.status = "ok" THEN Decode(u.val) ELSE Returned(Empty)

\* slip: a record whose payload does not verify is deleted on read
DbReadRowsSweep(rs, session_id, t) ==
    {r \in rs : r.id # session_id \/ TsUnsign(r.data, MaxAge, t).status = "ok"}

\* the table after read(): read() neither saves nor deletes
DbReadRows(rs, session_id, t) == rs

NewRow(session_id, data, t) ==
    [id |-> session_id, created |-> t, max_age |-> MaxAge, expires |-> t + MaxAge, data |-> data]

\* slip: a row inserted without looking the identifier up
DbSaveInsert(rs, session_id, data, t) == rs \cup {NewRow(session_id, data, t)}

\* slip: the payload of a record that is there never assigned
DbSaveNoUpdate(rs, session_id, data, t) ==
    IF QueryGet(rs, session_id) # {} THEN rs ELSE rs \cup {NewRow(session_id, data, t)}

DbSave(rs, session_id, data, t) ==
    IF QueryGet(rs, session_id) # {}
    THEN LET instance == CHOOSE r \in QueryGet(rs, session_id) : TRUE
         IN  (rs \ {instance}) \cup {[instance EXCEPT !.data = data]}
    ELSE rs \cup {NewRow(session_id, data, t)}

\* the identifier write() works with: the one given, or a newly signed one
DbWriteId(session_id, u) ==
    IF Truthy(session_id) THEN session_id ELSE Sign(B64Encode(GenerateId(u).val))

\* slip: the payload signed by the identifier signer, which embeds no timestamp
DbWriteIdSigner(rs, data, session_id, t, u) ==
    DbSave(rs, DbWriteId(session_id, u), Sign(Encode(data)), t)

DbWrite(rs, data, session_id, t, u) ==
    DbSave(rs, DbWriteId(session_id, u), TsSign(Encode(data), t), t)

\* slip: the row looked up and never deleted
DbRemoveNothing(rs, session_id) == rs

DbRemove(rs, session_id) ==
    IF QueryGet(rs, session_id) # {}
    THEN rs \ {CHOOSE r \in QueryGet(rs, session_id) : TRUE}
    ELSE rs

DbExists(rs, session_id) == QueryGet(rs, session_id) # {}

\* the primary keys in the table
Ids(rs) == {r.id : r \in rs}

\* ------------------------------------------------- dispatch on the backend
BackendRead(b, rs, session_id, t) ==
    IF b = "cookie" THEN CookieRead(session_id, t) ELSE DbRead(rs, session_id, t)

BackendReadRows(b, rs, session_id, t) ==
    IF b = "cookie" THEN rs ELSE DbReadRows(rs, session_id, t)

BackendWriteId(b, data, session_id, t, u) ==
    IF b = "cookie" THEN CookieWrite(data, session_id, t) ELSE DbWriteId(session_id, u)

BackendWriteRows(b, rs, data, session_id, t, u) ==
    IF b = "cookie" THEN rs ELSE DbWrite(rs, data, session_id, t, u)

BackendRemove(b, rs, session_id) ==
    IF b = "cookie" THEN CookieRemove(rs, session_id) ELSE DbRemove(rs, session_id)

BackendExists(b, rs, session_id) ==
    IF b = "cookie" THEN CookieExists(rs, session_id) ELSE DbExists(rs, session_id)

\* write() draws a uuid only in DatabaseBackend and only without a session_id
WriteGenerates(b, session_id) == b = "db" /\ ~Truthy(session_id)

\* the bounds of the model leave room for this write
WriteFits(b, session_id) ==
    /\ WriteGenerates(b, session_id) => next_uuid <= MaxUuid
    /\ (b = "db" /\ QueryGet(rows, DbWriteId(session_id, next_uuid)) = {}) => Cardinality(rows) < MaxRows

\* ------------------------------------------------------------------ Session
\* no write() of this instance is under way
NoPending == [id |-> NoneStr, data |-> NoneStr]

\* Session.__init__; the call log of this instance: reads counts its calls of
\* the backend's read, returned those that returned, first tells whether
\* session_id was set at its first load(); writing and pending hold the
\* locals of a write() that awaits _save
NewSession(b, session_id) ==
    [backend |-> b, session_id |-> session_id, data |-> Empty,
     is_loaded |-> FALSE, is_modified |-> FALSE, reads |-> 0, returned |-> 0, first |-> "",
     writing |-> FALSE, pending |-> NoPending]

NoWrite == [backend |-> "", given |-> NoneStr, id |-> NoneStr, d |-> Empty, t |-> 0]

NoFlush == [backend |-> "", id |-> NoneStr]

Obs(op, id, ret, res, found) ==
    [op |-> op, id |-> id, ret |-> ret, out |-> res.out, exc |-> res.exc, found |-> found]

\* one backend is configured for the process and given to every Session
Init ==
    /\ backend \in Backends
    /\ now = 0
    /\ rows = {}
    /\ next_uuid = 1
    /\ signed = {}
    /\ sess = [s \in Sessions |-> NewSession(backend, NoneStr)]
    /\ w = NoWrite
    /\ fl = NoFlush
    /\ last = Obs("init", NoneStr, NoneStr, Returned(Empty), FALSE)

\* the latest write, and the latest flush while nothing is written under its id
Wrote(b, data, session_id, id) ==
    /\ w' = [backend |-> b, given |-> session_id, id |-> id, d |-> data, t |-> now]
    /\ fl' = IF b = "db" /\ fl.backend = b /\ fl.id = id THEN NoFlush ELSE fl

\* the latest write is forgotten once its record is removed
Removed(b, session_id) ==
    w' = IF b = "db" /\ w.backend = b /\ w.id = session_id THEN NoWrite ELSE w

\* the state a backend write leaves
WriteEffect(b, data, session_id) ==
    /\ WriteFits(b, session_id)
    /\ rows' = BackendWriteRows(b, rows, data, session_id, now, next_uuid)
    /\ next_uuid' = IF WriteGenerates(b, session_id) THEN next_uuid + 1 ELSE next_uuid
    /\ signed' = IF WriteGenerates(b, session_id) THEN signed \cup {next_uuid} ELSE signed
    /\ Wrote(b, data, session_id, BackendWriteId(b, data, session_id, now, next_uuid))

\* the clock of the signers
Tick ==
    /\ now < MaxTime
    /\ now' = now + 1
    /\ last' = Obs("tick", NoneStr, NoneStr, Returned(Empty), FALSE)
    /\ UNCHANGED <<backend, rows, next_uuid, signed, sess, w, fl>>

\* the mappings handed to a backend's write directly
Inputs == {Empty, [a |-> 1], [b |-> 2], [a |-> 2, b |-> 1]}

\* the strings a client can have changed a signed string into
Payloads == {Encode(d) : d \in Inputs} \cup {JunkBytes, EmptyBytes}

Tampered(s) ==
    {[s EXCEPT !.val = v] : v \in Payloads \ {s.val}}
    \cup {[s EXCEPT !.ts = t] : t \in ((0 .. MaxTime) \cup {NoTs}) \ {s.ts}}
    \cup {[s EXCEPT !.sig = g] :
            g \in ({NoSig, Mac("attacker", s.val, s.ts)}
                   \cup {Mac(SecretKey, v, s.ts) : v \in Payloads}) \ {s.sig}}

\* the identifiers a client can present to a backend
ClientIds(b) ==
    {JunkStr}
    \cup (IF w.backend = b THEN {w.id} ELSE {})
    \cup (IF fl.backend = b THEN {fl.id} ELSE {})
    \cup {sess[s].session_id : s \in {x \in Active : sess[x].backend = b /\ Truthy(sess[x].session_id)}}
    \cup (IF b = "db" THEN {r.id : r \in rows} ELSE {})

ReadIds(b) == ClientIds(b) \cup (IF w.backend = b /\ b = "cookie" THEN Tampered(w.id) ELSE {})

Construct(s, b, session_id) ==
    /\ b = backend
    /\ sess' = [sess EXCEPT ![s] = NewSession(b, session_id)]
    /\ last' = Obs("init", session_id, NoneStr, Returned(Empty), FALSE)
    /\ UNCHANGED <<backend, now, rows, next_uuid, signed, w, fl>>

\* slip: load without the is_loaded guard
LoadSessionAlways(S, res) ==
    IF Truthy(S.session_id)
    THEN IF res.exc = ""
         THEN [S EXCEPT !.data = res.out, !.is_loaded = TRUE, !.reads = S.reads + 1,
                        !.returned = S.returned + 1,
                        !.first = IF S.first = "" THEN "set" ELSE S.first]
         ELSE [S EXCEPT !.reads = S.reads + 1]
    ELSE [S EXCEPT !.data = Empty, !.is_loaded = TRUE,
                   !.first = IF S.first = "" THEN "unset" ELSE S.first]

\* slip: the mapping read merged with the edits made before the load
LoadSessionMerge(S, res) ==
    IF S.is_loaded THEN S
    ELSE IF Truthy(S.session_id)
    THEN IF res.exc = ""
         THEN [S EXCEPT !.data = DictUpdate(res.out, S.data), !.is_loaded = TRUE,
                        !.reads = S.reads + 1, !.returned = S.returned + 1,
                        !.first = IF S.first = "" THEN "set" ELSE S.first]
         ELSE [S EXCEPT !.reads = S.reads + 1]
    ELSE [S EXCEPT !.data = S.data, !.is_loaded = TRUE,
                   !.first = IF S.first = "" THEN "unset" ELSE S.first]

\* slip: the Session marked loaded before the backend's read is awaited
LoadSessionMarksFirst(S, res) ==
    IF S.is_loaded THEN S
    ELSE IF Truthy(S.session_id)
    THEN IF res.exc = ""
         THEN [S EXCEPT !.data = res.out, !.is_loaded = TRUE, !.reads = S.reads + 1,
                        !.returned = S.returned + 1,
                        !.first = IF S.first = "" THEN "set" ELSE S.first]
         ELSE [S EXCEPT !.is_loaded = TRUE, !.reads = S.reads + 1]
    ELSE [S EXCEPT !.data = Empty, !.is_loaded = TRUE,
                   !.first = IF S.first = "" THEN "unset" ELSE S.first]

\* slip: a load that marks the freshly read Session clean
LoadSessionClean(S, res) ==
    IF S.is_loaded THEN S
    ELSE IF Truthy(S.session_id)
    THEN IF res.exc = ""
         THEN [S EXCEPT !.data = res.out, !.is_loaded = TRUE, !.reads = S.reads + 1,
                        !.returned = S.returned + 1, !.is_modified = FALSE,
                        !.first = IF S.first = "" THEN "set" ELSE S.first]
         ELSE [S EXCEPT !.reads = S.reads + 1]
    ELSE [S EXCEPT !.data = Empty, !.is_loaded = TRUE, !.is_modified = FALSE,
                   !.first = IF S.first = "" THEN "unset" ELSE S.first]

\* Session.load on the session record; res is the outcome of the backend's
\* read, whose exception load() does not catch
LoadSession(S, res) ==
    IF S.is_loaded THEN S
    ELSE IF Truthy(S.session_id)
    THEN IF res.exc = ""
         THEN [S EXCEPT !.data = res.out, !.is_loaded = TRUE, !.reads = S.reads + 1,
                        !.returned = S.returned + 1,
                        !.first = IF S.first = "" THEN "set" ELSE S.first]
         ELSE [S EXCEPT !.reads = S.reads + 1]
    ELSE [S EXCEPT !.data = Empty, !.is_loaded = TRUE,
                   !.first = IF S.first = "" THEN "unset" ELSE S.first]

\* SessionStore.query.get raises when the database cannot be reached; read()
\* catches BadSignature and SignatureExpired only
StorageError == [exc |-> "StorageError", out |-> Empty]

ReadOutcomes(S) ==
    {BackendRead(S.backend, rows, S.session_id, now)}
    \cup (IF S.backend = "db" /\ S.reads < MaxFail THEN {StorageError} ELSE {})

\* found of a load, a delete: this call went to the backend's read, remove;
\* found of a persist: session_id had a record when write was called
Load(s) ==
    \E res \in ReadOutcomes(sess[s]) :
        LET S == sess[s]
            S2 == LoadSession(S, res)
        IN  /\ sess' = [sess EXCEPT ![s] = S2]
            /\ last' = Obs("load", S.session_id, NoneStr,
                           IF S2.reads > S.reads THEN res ELSE Returned(Empty), S2.reads > S.reads)
            /\ rows' = IF S2.reads > S.reads /\ res.exc = ""
                       THEN BackendReadRows(S.backend, rows, S.session_id, now)
                       ELSE rows
            /\ UNCHANGED <<backend, now, next_uuid, signed, w, fl>>

Persist(s) ==
    LET S == sess[s]
        id == BackendWriteId(S.backend, S.data, S.session_id, now, next_uuid)
    IN  /\ WriteEffect(S.backend, S.data, S.session_id)
        /\ sess' = [sess EXCEPT ![s].session_id = id]
        /\ last' = Obs("persist", S.session_id, id, Returned(S.data),
                       BackendExists(S.backend, rows, S.session_id))
        /\ UNCHANGED <<backend, now>>

\* slip: the identifier cleared along with the data
DeleteSessionClearsId(S) ==
    IF Truthy(S.session_id)
    THEN [S EXCEPT !.data = Empty, !.is_modified = TRUE, !.session_id = NoneStr]
    ELSE S

\* persist() up to the point where DatabaseBackend.write awaits _save: the
\* identifier is settled and the payload signed
PersistBegin(s) ==
    LET S == sess[s]
    IN  /\ S.backend = "db" /\ ~S.writing
        /\ WriteGenerates("db", S.session_id) => next_uuid <= MaxUuid
        /\ sess' = [sess EXCEPT ![s].writing = TRUE,
                                ![s].pending = [id |-> DbWriteId(S.session_id, next_uuid),
                                                data |-> TsSign(Encode(S.data), now)]]
        /\ next_uuid' = IF WriteGenerates("db", S.session_id) THEN next_uuid + 1 ELSE next_uuid
        /\ signed' = IF WriteGenerates("db", S.session_id) THEN signed \cup {next_uuid} ELSE signed
        /\ last' = Obs("persist_begin", S.session_id, NoneStr, Returned(S.data), FALSE)
        /\ UNCHANGED <<backend, now, rows, w, fl>>

\* _save, which awaits nothing, and the return of write() into persist()
PersistSave(s) ==
    LET S == sess[s]
    IN  /\ S.writing
        /\ QueryGet(rows, S.pending.id) = {} => Cardinality(rows) < MaxRows
        /\ rows' = DbSave(rows, S.pending.id, S.pending.data, now)
        /\ sess' = [sess EXCEPT ![s].writing = FALSE, ![s].session_id = S.pending.id]
        /\ Wrote("db", S.data, S.session_id, S.pending.id)
        /\ last' = Obs("persist", S.session_id, S.pending.id, Returned(S.data),
                       DbExists(rows, S.pending.id))
        /\ UNCHANGED <<backend, now, next_uuid, signed>>

\* Session.delete on the session record
DeleteSession(S) ==
    IF Truthy(S.session_id) THEN [S EXCEPT !.data = Empty, !.is_modified = TRUE] ELSE S

DeleteRows(S) ==
    IF Truthy(S.session_id) THEN BackendRemove(S.backend, rows, S.session_id) ELSE rows

Delete(s) ==
    LET S == sess[s]
    IN  /\ sess' = [sess EXCEPT ![s] = DeleteSession(S)]
        /\ rows' = DeleteRows(S)
        /\ IF Truthy(S.session_id) THEN Removed(S.backend, S.session_id) ELSE UNCHANGED w
        /\ last' = Obs("delete", S.session_id, NoneStr, Returned(Empty), Truthy(S.session_id))
        /\ UNCHANGED <<backend, now, next_uuid, signed, fl>>

\* slip: the rotation also forgets the in-memory mapping
RegenerateSessionClearsData(S, u) ==
    [S EXCEPT !.session_id = GenerateId(u), !.is_modified = TRUE, !.data = Empty]

\* Session.regenerate_id on the session record
RegenerateSession(S, u) == [S EXCEPT !.session_id = GenerateId(u), !.is_modified = TRUE]

RegenerateId(s) ==
    LET S == sess[s]
    IN  /\ next_uuid <= MaxUuid
        /\ sess' = [sess EXCEPT ![s] = RegenerateSession(S, next_uuid)]
        /\ next_uuid' = next_uuid + 1
        /\ last' = Obs("regenerate_id", S.session_id, GenerateId(next_uuid), Returned(Empty), FALSE)
        /\ UNCHANGED <<backend, now, rows, signed, w, fl>>

\* Session.flush on the session record
FlushSession(S, u) == RegenerateSession(DeleteSession([S EXCEPT !.is_modified = TRUE]), u)

Flush(s) ==
    LET S == sess[s]
    IN  /\ next_uuid <= MaxUuid
        /\ sess' = [sess EXCEPT ![s] = FlushSession(S, next_uuid)]
        /\ rows' = DeleteRows(S)
        /\ next_uuid' = next_uuid + 1
        /\ IF Truthy(S.session_id) THEN Removed(S.backend, S.session_id) ELSE UNCHANGED w
        /\ fl' = [backend |-> S.backend, id |-> GenerateId(next_uuid)]
        /\ last' = Obs("flush", S.session_id, GenerateId(next_uuid), Returned(Empty), FALSE)
        /\ UNCHANGED <<backend, now, signed>>

\* ------------------------------------------------------ mapping operations
SetItemSession(S, k, v) == [S EXCEPT !.is_modified = TRUE, !.data = DictSet(S.data, k, v)]

\* del self._data[key] raises KeyError for an absent key, after the flag is set
DelItemSession(S, k) == [S EXCEPT !.is_modified = TRUE, !.data = DictDel(S.data, k)]

\* slip: the flag set only when the key was there
PopSessionIfPresent(S, k) ==
    IF k \in DOMAIN S.data THEN [S EXCEPT !.is_modified = TRUE, !.data = DictDel(S.data, k)] ELSE S

PopSession(S, k) == [S EXCEPT !.is_modified = TRUE, !.data = DictDel(S.data, k)]

SetDefaultSession(S, k, v) == [S EXCEPT !.is_modified = TRUE, !.data = DictSetDefault(S.data, k, v)]

ClearSession(S) == [S EXCEPT !.is_modified = TRUE, !.data = Empty]

UpdateSession(S, m) == [S EXCEPT !.is_modified = TRUE, !.data = DictUpdate(S.data, m)]

KeyError(S, k) == IF k \in DOMAIN S.data THEN Returned(Empty) ELSE [exc |-> "KeyError", out |-> Empty]

Mutate(s, op, S2, res) ==
    /\ sess' = [sess EXCEPT ![s] = S2]
    /\ last' = Obs(op, NoneStr, NoneStr, res, FALSE)
    /\ UNCHANGED <<backend, now, rows, next_uuid, signed, w, fl>>

SetItem(s, k, v) == Mutate(s, "__setitem__", SetItemSession(sess[s], k, v), Returned(Empty))

DelItem(s, k) == Mutate(s, "__delitem__", DelItemSession(sess[s], k), KeyError(sess[s], k))

Pop(s, k) == Mutate(s, "pop", PopSession(sess[s], k), Returned(Empty))

SetDefault(s, k, v) == Mutate(s, "setdefault", SetDefaultSession(sess[s], k, v), Returned(Empty))

Clear(s) == Mutate(s, "clear", ClearSession(sess[s]), Returned(Empty))

Update(s, m) == Mutate(s, "update", UpdateSession(sess[s], m), Returned(Empty))

\* the read accessors return a view of _data and assign nothing
GetSession(S, k) == S

KeysSession(S) == S

ValuesSession(S) == S

ItemsSession(S) == S

ContainsSession(S, k) == S

GetItemSession(S, k) == S

IsEmptySession(S) == S

Access(s, op, S2, res, found) ==
    /\ sess' = [sess EXCEPT ![s] = S2]
    /\ last' = Obs(op, NoneStr, NoneStr, res, found)
    /\ UNCHANGED <<backend, now, rows, next_uuid, signed, w, fl>>

Get(s, k) == Access(s, "get", GetSession(sess[s], k), Returned(Empty), k \in DOMAIN sess[s].data)

KeysOf(s) == Access(s, "keys", KeysSession(sess[s]), Returned(Empty), FALSE)

ValuesOf(s) == Access(s, "values", ValuesSession(sess[s]), Returned(Empty), FALSE)

Items(s) == Access(s, "items", ItemsSession(sess[s]), Returned(Empty), FALSE)

Contains(s, k) == Access(s, "__contains__", ContainsSession(sess[s], k), Returned(Empty), k \in DOMAIN sess[s].data)

GetItem(s, k) == Access(s, "__getitem__", GetItemSession(sess[s], k), KeyError(sess[s], k), k \in DOMAIN sess[s].data)

IsEmpty(s) == Access(s, "is_empty", IsEmptySession(sess[s]), Returned(Empty), DOMAIN sess[s].data = {})

\* ----------------------------------------------- calls on a backend directly
\* (found of a remove: the identifier had a record when it was called)
Write(b, data, session_id) ==
    /\ b = backend
    /\ WriteEffect(b, data, session_id)
    /\ last' = Obs("write", session_id, BackendWriteId(b, data, session_id, now, next_uuid), Returned(data), FALSE)
    /\ UNCHANGED <<backend, now, sess>>

Read(b, session_id) ==
    /\ b = backend
    /\ last' = Obs("read", session_id, NoneStr, BackendRead(b, rows, session_id, now), FALSE)
    /\ rows' = BackendReadRows(b, rows, session_id, now)
    /\ UNCHANGED <<backend, now, next_uuid, signed, sess, w, fl>>

Remove(b, session_id) ==
    /\ b = backend
    /\ rows' = BackendRemove(b, rows, session_id)
    /\ Removed(b, session_id)
    /\ last' = Obs("remove", session_id, NoneStr, Returned(Empty), BackendExists(b, rows, session_id))
    /\ UNCHANGED <<backend, now, next_uuid, signed, sess, fl>>

Exists(b, session_id) ==
    /\ b = backend
    /\ last' = Obs("exists", session_id, NoneStr, Returned(Empty), BackendExists(b, rows, session_id))
    /\ UNCHANGED <<backend, now, rows, next_uuid, signed, sess, w, fl>>

\* a record whose payload was signed under another secret key, as after a
\* change of the configured key
ForeignKey(id) ==
    /\ backend = "db"
    /\ \E r \in QueryGet(rows, id) :
           /\ SigOk(r.data)
           /\ rows' = (rows \ {r}) \cup
                  {[r EXCEPT !.data = [r.data EXCEPT !.sig = Mac("other", r.data.val, r.data.ts)]]}
    /\ last' = Obs("foreign", id, NoneStr, Returned(Empty), FALSE)
    /\ UNCHANGED <<backend, now, next_uuid, signed, sess, w, fl>>

\* -------------------------------------------------------- specifications
Lifecycle(s) ==
    \/ \E id \in ClientIds(backend) \cup {NoneStr} : Construct(s, backend, id)
    \/ Load(s)
    \/ Persist(s)
    \/ Delete(s)
    \/ Flush(s)
    \/ RegenerateId(s)

Mutators(s) ==
    \/ \E k \in Keys : \E v \in Vals : SetItem(s, k, v)
    \/ \E k \in Keys : DelItem(s, k)
    \/ \E k \in Keys : Pop(s, k)
    \/ \E k \in Keys : \E v \in Vals : SetDefault(s, k, v)
    \/ Clear(s)
    \/ \E m \in Mappings : Update(s, m)

Accessors(s) ==
    \/ \E k \in Keys : Get(s, k)
    \/ KeysOf(s)
    \/ ValuesOf(s)
    \/ Items(s)
    \/ \E k \in Keys : Contains(s, k)
    \/ \E k \in Keys : GetItem(s, k)
    \/ IsEmpty(s)

Direct ==
    \/ \E d \in Inputs : \E id \in ClientIds(backend) \cup {NoneStr, EmptyStr} : Write(backend, d, id)
    \/ \E id \in ReadIds(backend) : Read(backend, id)
    \/ \E id \in ClientIds(backend) : Remove(backend, id)
    \/ \E id \in ClientIds(backend) : Exists(backend, id)

\* every operation of the module
Next ==
    \/ Tick
    \/ Direct
    \/ \E s \in Active : Lifecycle(s) \/ Mutators(s) \/ Accessors(s)

Spec == Init /\ [][Next]_vars

\* the backends called directly, under the signers' clock
NextBackend == Tick \/ Direct

SpecBackend == Init /\ [][NextBackend]_vars

\* the backends called directly, over a table that may hold records signed
\* under another key
NextStore == NextBackend \/ \E id \in Ids(rows) : ForeignKey(id)

SpecStore == Init /\ [][NextStore]_vars

\* the life cycle of a Session at one instant of the clock
NextLifecycle ==
    \E s \in Active :
        \/ Lifecycle(s)
        \/ \E k \in Keys : SetItem(s, k, 1)
        \/ \E k \in Keys : Pop(s, k)

SpecLifecycle == Init /\ [][NextLifecycle]_vars

\* sessions persisted and loaded again as the clock advances
NextTimed ==
    \/ Tick
    \/ \E s \in Active :
        \/ \E id \in (ClientIds(backend) \ {JunkStr}) \cup {NoneStr} : Construct(s, backend, id)
        \/ Load(s)
        \/ Persist(s)
        \/ Delete(s)
        \/ \E k \in Keys : SetItem(s, k, 1)

SpecTimed == Init /\ [][NextTimed]_vars

\* the mapping surface of a Session
NextMapping ==
    \E s \in Active :
        \/ Construct(s, backend, NoneStr)
        \/ Load(s)
        \/ Mutators(s)
        \/ Accessors(s)

SpecMapping == Init /\ [][NextMapping]_vars

\* every operation of a Session, on the one key "a"
NextFlag ==
    \E s \in Active :
        \/ \E id \in (ClientIds(backend) \ {JunkStr}) \cup {NoneStr} : Construct(s, backend, id)
        \/ Load(s)
        \/ Persist(s)
        \/ Delete(s)
        \/ Flush(s)
        \/ RegenerateId(s)
        \/ SetItem(s, "a", 1)
        \/ DelItem(s, "a")
        \/ Pop(s, "a")
        \/ SetDefault(s, "a", 1)
        \/ Clear(s)
        \/ \E d \in {Empty, [a |-> 1]} : Update(s, d)
        \/ Get(s, "a")
        \/ KeysOf(s)
        \/ ValuesOf(s)
        \/ Items(s)
        \/ Contains(s, "a")
        \/ GetItem(s, "a")
        \/ IsEmpty(s)

SpecFlag == Init /\ [][NextFlag]_vars

\* the key each request sets
OwnKey(s) == IF s = "s1" THEN "a" ELSE "b"

\* two Session instances of two requests on one DatabaseBackend, the database
\* within reach; an instance is owned by one request, which awaits its
\* persist() before its next call
NextConcurrent ==
    \E s \in Sessions :
        \/ /\ ~sess[s].writing
           /\ \/ \E id \in Ids(rows) \cup {NoneStr} : Construct(s, backend, id)
              \/ Load(s) /\ last'.exc = ""
              \/ SetItem(s, OwnKey(s), 1)
              \/ PersistBegin(s)
        \/ PersistSave(s)

InitConcurrent == Init /\ backend = "db"

SpecConcurrent == InitConcurrent /\ [][NextConcurrent]_vars

\* ------------------------------------------------------------------ claims

\* the latest step read the identifier of the latest write of this backend
ReadOfLatestWrite == last.op = "read" /\ w.backend = backend /\ last.id = w.id

\* C1: CookieBackend.read of the identifier write(d) returned gives back d at
\* every clock time up to and including max_age seconds after the write.
C1_CookieRoundTrip ==
    (backend = "cookie" /\ ReadOfLatestWrite /\ now - w.t <= MaxAge)
        => (last.exc = "" /\ last.out = w.d)

C1_Witness ==
    /\ backend = "cookie" /\ ReadOfLatestWrite
    /\ now - w.t = MaxAge /\ w.d = [a |-> 2, b |-> 1] /\ last.out = w.d

\* C3: for either backend, read of a written identifier max_age + 1 seconds or
\* more after its latest write returns the empty mapping and does not raise.
C3_Expiry ==
    (ReadOfLatestWrite /\ now >= w.t + MaxAge + 1)
        => (last.exc = "" /\ last.out = Empty)

C3_Witness ==
    /\ backend = "db" /\ ReadOfLatestWrite /\ DbExists(rows, last.id)
    /\ now = w.t + MaxAge + 1 /\ w.d # Empty /\ last.out = Empty

\* the strings the backend's timestamp signer has produced by now
SignerProduced == {TsSign(Encode(d), t) : d \in Inputs, t \in 0 .. now}

\* C4: CookieBackend.read of a written identifier with its payload, timestamp
\* or signature changed returns the empty mapping and never raises; read gives
\* a non-empty mapping only for a string the backend's signer produced.
C4_TamperResistance ==
    backend = "cookie" =>
        /\ w.backend = "cookie" => \A x \in Tampered(w.id) : CookieRead(x, now) = Returned(Empty)
        /\ last.op = "read" => last.exc = ""
        /\ (last.op = "read" /\ w.backend = "cookie" /\ last.id \in Tampered(w.id)) => last.out = Empty
        /\ (last.op = "read" /\ last.out # Empty) => last.id \in SignerProduced

C4_Witness ==
    /\ backend = "cookie" /\ last.op = "read" /\ w.backend = "cookie"
    /\ w.d # Empty /\ now - w.t <= MaxAge
    /\ last.id = [w.id EXCEPT !.val = Encode([a |-> 1])]
    /\ last.id # w.id
    /\ last.out = Empty /\ last.exc = ""

\* the identifiers DatabaseBackend.write has signed so far
IssuedIds == {Sign(B64Encode(GenerateId(u).val)) : u \in signed}

RowsWellFormed ==
    /\ \A r \in rows : r.expires = r.created + r.max_age /\ r.max_age = MaxAge
    /\ \A r1, r2 \in rows : r1.id = r2.id => r1 = r2

\* a step of DatabaseBackend.write: last'.id is the session_id it was given,
\* last'.ret the identifier it returned, last'.out the mapping it was given
WriteStepUpserts ==
    (backend = "db" /\ last'.op = "write") =>
        /\ ~Truthy(last'.id) => (last'.ret \notin Ids(rows) /\ last'.ret \notin IssuedIds)
        /\ Truthy(last'.id) => last'.ret = last'.id
        /\ IF DbExists(rows, last'.ret)
           THEN /\ Cardinality(rows') = Cardinality(rows)
                /\ \A r \in rows : r.id # last'.ret => r \in rows'
                /\ \A r \in rows : r.id = last'.ret =>
                       [r EXCEPT !.data = TsSign(Encode(last'.out), now)] \in rows'
           ELSE /\ Cardinality(rows') = Cardinality(rows) + 1
                /\ rows \subseteq rows'
                /\ \E r \in rows' \ rows : r.id = last'.ret /\ r.created = now

\* C6: DatabaseBackend.write without a session_id inserts exactly one record
\* under a fresh identifier; write to an identifier that has a record replaces
\* only that record's data; every identifier has at most one record and every
\* record has expires = created + max_age.
C6_Upsert == []RowsWellFormed /\ [][WriteStepUpserts]_vars

C6_Witness ==
    /\ backend = "db" /\ last.op = "write" /\ Truthy(last.id)
    /\ Cardinality(rows) = 2
    /\ \E r \in rows : r.id = last.id /\ r.created < now /\ r.data = TsSign(Encode(last.out), now)

\* a step of DatabaseBackend.remove on an identifier that has no record
RemoveStepOfAbsent ==
    (backend = "db" /\ last'.op = "remove" /\ ~DbExists(rows, last'.id)) => rows' = rows

\* C7: for DatabaseBackend, exists(id) is true right after a write that
\* returned or was given id and false right after remove(id); remove of an
\* identifier without a record leaves the store unchanged.
C7_ExistsAfterWriteAndRemove ==
    /\ [](backend = "db" =>
            /\ last.op = "write" => (DbExists(rows, last.ret) /\ (Truthy(last.id) => DbExists(rows, last.id)))
            /\ last.op = "remove" => ~DbExists(rows, last.id)
            /\ last.op = "exists" => last.found = DbExists(rows, last.id))
    /\ [][RemoveStepOfAbsent]_vars

C7_Witness ==
    /\ backend = "db" /\ last.op = "remove" /\ last.found
    /\ ~DbExists(rows, last.id) /\ rows # {}

\* the latest step was a load() that went to the backend's read and returned
LoadedFromBackend == last.op = "load" /\ last.found /\ last.exc = ""

\* C2: under DatabaseBackend, data persisted by a Session is what a second
\* Session constructed with the returned identifier holds after load(), within
\* max_age and with no write or remove on the identifier in between.
C2_Persistence ==
    (backend = "db" /\ LoadedFromBackend /\ w.backend = "db" /\ last.id = w.id /\ now - w.t <= MaxAge)
        => \A s \in Active : sess[s].is_loaded /\ sess[s].data = w.d

C2_Witness ==
    /\ backend = "db" /\ LoadedFromBackend /\ w.backend = "db" /\ last.id = w.id
    /\ w.given = NoneStr /\ w.d = [a |-> 1] /\ now = w.t + MaxAge
    /\ ~sess["s1"].is_modified /\ sess["s1"].data = w.d

\* C5: DatabaseBackend.read returns the empty mapping for every identifier
\* that is not one its own write signed and issued.
C5_ForgedReadsEmpty ==
    backend = "db" =>
        \A id \in (Ids(rows) \cup ClientIds("db")) \ IssuedIds : DbRead(rows, id, now) = Returned(Empty)

\* a step of load() on a Session that is already loaded
ReloadChangesNothing ==
    \A s \in Active :
        (sess[s].is_loaded /\ last'.op = "load") =>
            /\ sess'[s].data = sess[s].data
            /\ sess'[s].session_id = sess[s].session_id
            /\ sess'[s].is_loaded = sess[s].is_loaded
            /\ sess'[s].is_modified = sess[s].is_modified
            /\ sess'[s].reads = sess[s].reads

\* C8 as stated: one Session instance calls the backend's read at most once
\* over any sequence of operations, and never when session_id was unset at
\* its first load(); a load() after the first successful one changes nothing.
C8_ReadInvokedAtMostOnce ==
    /\ [](\A s \in Active : sess[s].reads <= 1 /\ (sess[s].first = "unset" => sess[s].reads = 0))
    /\ [][ReloadChangesNothing]_vars

\* C8 as amended: at most one call of the backend's read returns, and read is
\* not called when session_id was unset at the first load(); a load() after
\* the first successful one calls no read and leaves data, session_id and both
\* flags unchanged.
C8_LoadOnce ==
    /\ [](\A s \in Active :
            /\ sess[s].returned <= 1
            /\ sess[s].returned = 1 => sess[s].is_loaded
            /\ sess[s].first = "unset" => sess[s].reads = 0)
    /\ [][ReloadChangesNothing]_vars

C8_Witness ==
    /\ last.op = "load" /\ ~last.found
    /\ sess["s1"].is_loaded /\ sess["s1"].reads = 2 /\ sess["s1"].returned = 1
    /\ sess["s1"].is_modified /\ sess["s1"].data # Empty

MutatorOps == {"__setitem__", "__delitem__", "pop", "setdefault", "clear", "update"}

AccessorOps == {"get", "keys", "values", "items", "__contains__", "__getitem__", "is_empty"}

\* C9: every call of a mutating operation leaves is_modified true, also when
\* the edit changes nothing or fails; the read accessors change nothing of the
\* Session in any state, before load() included.
C9_DirtyTracking ==
    /\ [](last.op \in MutatorOps => \A s \in Active : sess[s].is_modified)
    /\ [][last'.op \in AccessorOps => sess' = sess]_vars

C9_Witness ==
    /\ last.op = "__delitem__" /\ last.exc = "KeyError"
    /\ sess["s1"].is_modified /\ ~sess["s1"].is_loaded /\ sess["s1"].data = Empty

\* C10: the identifier flush() returns differs from the session_id before it,
\* and a fresh Session bound to it holds the empty mapping after load(), as
\* long as nothing was persisted under it.
C10_FlushRotates ==
    /\ last.op = "flush" => (last.ret # last.id /\ \A s \in Active : sess[s].session_id = last.ret)
    /\ (LoadedFromBackend /\ fl.backend = backend /\ Truthy(fl.id) /\ last.id = fl.id)
           => (last.exc = "" /\ \A s \in Active : sess[s].data = Empty)

C10_Witness ==
    /\ backend = "db" /\ LoadedFromBackend /\ fl.backend = backend /\ last.id = fl.id
    /\ signed # {} /\ rows # {}
    /\ ~sess["s1"].is_modified /\ sess["s1"].is_loaded /\ sess["s1"].data = Empty

\* a persist() right after a flush() stores the mapping the flush left
PersistAfterFlushStoresNothing ==
    (last.op = "flush" /\ last'.op = "persist") => last'.out = Empty

\* C11: after flush() returns, whatever the Session held before and also when
\* its session_id was unset, data is the empty mapping and is_modified is true,
\* so a persist() that follows stores none of the keys held before the flush.
C11_FlushInvalidates ==
    /\ [](last.op = "flush" => \A s \in Active : sess[s].data = Empty /\ sess[s].is_modified)
    /\ [][PersistAfterFlushStoresNothing]_vars

\* a step of delete(): with a session_id, data is emptied, the flag set, the
\* record removed and nothing else changed; without one, nothing happens
DeleteStep ==
    \A s \in Active :
        last'.op = "delete" =>
            IF Truthy(sess[s].session_id)
            THEN /\ sess'[s] = [sess[s] EXCEPT !.data = Empty, !.is_modified = TRUE]
                 /\ last'.found
                 /\ ~BackendExists(backend, rows', sess[s].session_id)
                 /\ rows' \subseteq rows
                 /\ \A r \in rows : r.id # sess[s].session_id => r \in rows'
            ELSE sess' = sess /\ rows' = rows /\ ~last'.found

\* a step of persist() under DatabaseBackend on a session_id without a record
PersistRecreates ==
    \A s \in Active :
        (backend = "db" /\ last'.op = "persist"
            /\ Truthy(sess[s].session_id) /\ ~DbExists(rows, sess[s].session_id)) =>
            /\ sess'[s].session_id = sess[s].session_id
            /\ Cardinality(rows') = Cardinality(rows) + 1
            /\ \E r \in rows' \ rows :
                   /\ r.id = sess[s].session_id
                   /\ r.created = now
                   /\ r.data = TsSign(Encode(sess[s].data), now)

\* C12: delete() on a set session_id empties data, marks modified, removes the
\* record and keeps session_id, so that under DatabaseBackend a persist()
\* without regenerate_id() makes a new record under the same identifier with
\* created at the time of that persist; on an unset session_id delete()
\* changes nothing and calls no backend operation.
C12_DeleteKeepsId ==
    /\ [][DeleteStep]_vars
    /\ [][PersistRecreates]_vars
    /\ []((backend = "db" /\ last.op = "delete" /\ last.found) =>
            \A s \in Active : sess[s].session_id = last.id /\ ~DbExists(rows, last.id))

C12_Witness ==
    /\ backend = "db" /\ last.op = "persist" /\ ~last.found
    /\ last.id \in IssuedIds /\ last.ret = last.id /\ now = MaxTime
    /\ \E r \in rows : r.id = last.id /\ r.created = now /\ r.data = TsSign(Encode([a |-> 1]), now)

\* a step of regenerate_id(): a new session_id, the flag set, the rest as it was
RegenerateStep ==
    \A s \in Active :
        last'.op = "regenerate_id" =>
            /\ sess'[s].session_id = last'.ret
            /\ sess'[s].session_id # sess[s].session_id
            /\ sess'[s].is_modified
            /\ sess'[s].data = sess[s].data
            /\ sess'[s].is_loaded = sess[s].is_loaded
            /\ rows' = rows

\* a persist() right after regenerate_id() under DatabaseBackend: last.id is
\* the identifier the Session had before the rotation
PersistAfterRegenerateKeepsOld ==
    (backend = "db" /\ last.op = "regenerate_id" /\ last'.op = "persist") =>
        /\ \A r \in rows : r \in rows'
        /\ DbExists(rows, last.id) => DbExists(rows', last.id)
        /\ DbRead(rows', last.id, now) = DbRead(rows, last.id, now)

\* C13: regenerate_id() changes session_id and is_modified only: data,
\* is_loaded and the store stay as they were, and under DatabaseBackend after
\* regenerate_id() and persist() the record of the old identifier is still
\* there and read of the old identifier returns what it returned before.
C13_RegenerateFrame ==
    /\ [][RegenerateStep]_vars
    /\ [][PersistAfterRegenerateKeepsOld]_vars

C13_Witness ==
    /\ backend = "db" /\ last.op = "persist" /\ ~last.found
    /\ last.id = GenerateId(2) /\ signed = {1}
    /\ sess["s1"].is_loaded /\ sess["s1"].returned = 1 /\ sess["s1"].data = [a |-> 1]
    /\ \E r \in rows : r.id \in IssuedIds /\ DbRead(rows, r.id, now) = Returned([a |-> 1])
    /\ DbRead(rows, last.id, now) = Returned([a |-> 1])

\* a step of persist(): session_id becomes the identifier the backend's write
\* returned, and the flag stays as it was
PersistStep ==
    \A s \in Active :
        last'.op = "persist" =>
            /\ sess'[s].session_id = w'.id
            /\ last'.ret = w'.id
            /\ sess'[s].is_modified = sess[s].is_modified

\* a step of any operation of one Session instance (a step of op "init"
\* makes a new instance)
FlagStays ==
    \A s \in Active :
        (sess[s].is_modified /\ last'.op # "init") => sess'[s].is_modified

\* C14: persist() takes the identifier the backend's write returned as
\* session_id and leaves is_modified as it was; no operation of a Session ever
\* turns is_modified from true to false.
C14_ModifiedMonotonic ==
    /\ [][PersistStep]_vars
    /\ [][FlagStays]_vars

C14_Witness ==
    /\ last.op = "persist" /\ last.id = NoneStr /\ Truthy(last.ret)
    /\ sess["s1"].session_id = last.ret /\ sess["s1"].is_modified
    /\ sess["s1"].is_loaded /\ sess["s1"].data = [a |-> 1]

\* every record holds a whole signed payload, and the record of the latest
\* completed write holds exactly the mapping that write was given
WholeRecords ==
    /\ RowsWellFormed
    /\ \A r \in rows : SigOk(r.data) /\ Decode(r.data.val).exc = ""
    /\ w.backend = "db" =>
           /\ Cardinality(QueryGet(rows, w.id)) = 1
           /\ DbRead(rows, w.id, now) = Returned(w.d)

\* the step that completes a persist(): no error, one record under the
\* identifier, holding the mapping of this persist and nothing else
PersistCompletes ==
    last'.op = "persist" =>
        /\ last'.exc = ""
        /\ Cardinality(QueryGet(rows', last'.ret)) = 1
        /\ DbRead(rows', last'.ret, now) = Returned(last'.out)
        /\ \A r \in rows : r.id # last'.ret => r \in rows'

\* C15: two Session instances loaded from one DatabaseBackend identifier,
\* changed independently and both persisted: in every interleaving each
\* persist completes without error, the identifier has one record, its
\* payload is the data of the persist applied last with nothing of the other
\* writer merged in, and no state in between shows a partial record.
C15_LastWriteWins ==
    /\ []WholeRecords
    /\ [][PersistCompletes]_vars

C15_Witness ==
    /\ last.op = "persist" /\ Cardinality(rows) = 1
    /\ \A s \in Sessions :
           /\ sess[s].is_loaded /\ sess[s].returned = 1 /\ ~sess[s].writing
           /\ sess[s].session_id = w.id /\ sess[s].pending.id = w.id
    /\ sess["s1"].data = [a |-> 1] /\ sess["s2"].data = [b |-> 1]
    /\ sess["s2"].pending.data # sess["s1"].pending.data
    /\ DbRead(rows, w.id, now) = Returned([a |-> 1])

\* a step of load() whose backend read raises: the exception reaches the
\* caller and the Session and the store are as before
FailedLoadChangesNothing ==
    \A s \in Active :
        (last'.op = "load" /\ last'.exc # "") =>
            /\ last'.found
            /\ ~sess'[s].is_loaded
            /\ sess'[s].data = sess[s].data
            /\ sess'[s].session_id = sess[s].session_id
            /\ sess'[s].is_modified = sess[s].is_modified
            /\ rows' = rows

\* a step of load() on an unloaded Session with a session_id calls the
\* backend's read
UnloadedLoadReads ==
    \A s \in Active :
        (last'.op = "load" /\ ~sess[s].is_loaded /\ Truthy(sess[s].session_id)) =>
            /\ last'.found
            /\ sess'[s].reads = sess[s].reads + 1

\* C16: when the backend's read raises, or the load is cancelled while it
\* awaits the read, the exception reaches the caller, the Session stays
\* unloaded with data, session_id and is_modified as they were, and a later
\* load() calls the backend's read again.
C16_FailedLoadRetries ==
    /\ [][FailedLoadChangesNothing]_vars
    /\ [][UnloadedLoadReads]_vars
    /\ [](last.exc = "StorageError" =>
            \A s \in Active : ~sess[s].is_loaded /\ sess[s].reads > sess[s].returned)

C16_Witness ==
    /\ backend = "db" /\ LoadedFromBackend
    /\ sess["s1"].reads = 2 /\ sess["s1"].returned = 1 /\ sess["s1"].is_loaded
    /\ sess["s1"].data = [b |-> 1] /\ DbRead(rows, last.id, now) = Returned([b |-> 1])

\* the record of id does not pass unsign(max_age) at this time
Unverifiable(rs, id, t) ==
    \E r \in QueryGet(rs, id) : TsUnsign(r.data, MaxAge, t).status # "ok"

\* a step of DatabaseBackend.read
ReadStepKeepsStore ==
    (backend = "db" /\ last'.op = "read") =>
        /\ rows' = rows
        /\ Unverifiable(rows, last'.id, now) =>
               /\ last'.out = Empty /\ last'.exc = ""
               /\ DbExists(rows', last'.id)

\* C17: DatabaseBackend.read never changes the store: on a record whose data
\* is expired or does not verify it returns the empty mapping and leaves the
\* record as it is, so exists(id) is still true.
C17_ReadKeepsStore ==
    /\ [][ReadStepKeepsStore]_vars
    /\ []((backend = "db" /\ last.op = "exists") => last.found = DbExists(rows, last.id))

C17_Witness ==
    /\ backend = "db" /\ last.op = "read" /\ last.out = Empty
    /\ DbExists(rows, last.id) /\ Cardinality(rows) = 2
    /\ \E r \in QueryGet(rows, last.id) :
           /\ TsUnsign(r.data, MaxAge, now).status = "BadSignature"
           /\ Decode(r.data.val).out # Empty
    /\ \E r \in rows : TsUnsign(r.data, MaxAge, now).status = "SignatureExpired"

\* C18: CookieBackend keeps nothing on the server: remove changes nothing and
\* exists is false for every identifier in every state, right after a write
\* too, so after Session.delete() the identifier issued before still reads
\* back the data written under it while it is within max_age.
C18_CookieStateless ==
    backend = "cookie" =>
        /\ rows = {}
        /\ \A id \in ReadIds("cookie") :
               ~CookieExists(rows, id) /\ CookieRemove(rows, id) = rows
        /\ last.op = "persist" => ~CookieExists(rows, last.ret)
        /\ (last.op = "delete" /\ last.found /\ w.backend = "cookie"
               /\ last.id = w.id /\ now - w.t <= MaxAge)
               => CookieRead(last.id, now) = Returned(w.d)

C18_Witness ==
    /\ backend = "cookie" /\ last.op = "delete" /\ last.found
    /\ w.backend = "cookie" /\ last.id = w.id /\ now = w.t + MaxAge
    /\ w.d = [a |-> 1, b |-> 1] /\ sess["s1"].data = Empty
    /\ sess["s1"].session_id = w.id
    /\ CookieRead(w.id, now) = Returned(w.d)

\* a step of DatabaseBackend.write on an identifier that has a record
RewriteKeepsCreated ==
    (backend = "db" /\ last'.op = "write" /\ DbExists(rows, last'.ret)) =>
        \A r \in QueryGet(rows, last'.ret) :
            \E r2 \in QueryGet(rows', last'.ret) :
                /\ r2.created = r.created /\ r2.expires = r.expires
                /\ r2.max_age = r.max_age /\ r2.data.ts = now

\* read of the identifier of the latest write: the mapping written while the
\* write is at most max_age old, the empty mapping after that
ReadByWriteAge ==
    (backend = "db" /\ last.op = "read") =>
        /\ last.exc = ""
        /\ ~DbExists(rows, last.id) => last.out = Empty
        /\ (w.backend = "db" /\ last.id = w.id) =>
               /\ DbExists(rows, last.id)
               /\ last.out = IF now - w.t <= MaxAge THEN w.d ELSE Empty
        /\ \A r \in QueryGet(rows, last.id) :
               /\ r.data.ts >= r.created
               /\ last.out = IF now - r.data.ts <= MaxAge THEN Decode(r.data.val).out ELSE Empty

\* C19: DatabaseBackend counts the age from the latest write of the record,
\* not from its creation: read returns the stored mapping exactly when the
\* record exists and its latest write is at most max_age old, and a write to
\* an existing record leaves created and expires as they were, so a rewritten
\* record is read with its data after the time in its expires column.
C19_ExpiryFromLastWrite ==
    /\ []ReadByWriteAge
    /\ [][RewriteKeepsCreated]_vars

C19_Witness ==
    /\ backend = "db" /\ last.op = "read" /\ w.backend = "db" /\ last.id = w.id
    /\ last.out = [a |-> 2, b |-> 1]
    /\ \E r \in QueryGet(rows, last.id) : now > r.expires /\ r.created < w.t

\* a step of the first load() that completes: data is what the backend's read
\* returns, or empty without a session_id, and the flag is as it was
FirstLoadReplaces ==
    \A s \in Active :
        (last'.op = "load" /\ last'.exc = "" /\ ~sess[s].is_loaded) =>
            /\ sess'[s].is_loaded
            /\ sess'[s].data = IF Truthy(sess[s].session_id)
                               THEN BackendRead(backend, rows, sess[s].session_id, now).out
                               ELSE Empty
            /\ sess'[s].is_modified = sess[s].is_modified

\* a persist() right after a load() that read the backend stores what was read
PersistAfterLoadStoresRead ==
    (last.op = "load" /\ last.found /\ last.exc = "" /\ last'.op = "persist") =>
        last'.out = last.out

\* C20: the first load() discards what was put in the mapping before it: data
\* becomes the backend's read result, or {} when session_id is unset, whatever
\* it held, and is_modified keeps its value; so a Session can be modified with
\* data equal to the backend's, and a persist() that follows stores none of
\* the edits made before the load.
C20_LoadDiscardsEdits ==
    /\ [][FirstLoadReplaces]_vars
    /\ [][PersistAfterLoadStoresRead]_vars

C20_Witness ==
    /\ backend = "db" /\ LoadedFromBackend /\ last.id \in IssuedIds
    /\ sess["s1"].is_modified /\ sess["s1"].reads = 1
    /\ sess["s1"].data = [a |-> 1] /\ DbRead(rows, last.id, now) = Returned([a |-> 1])
====
